---- MODULE Spec2Model ----
(***************************************************************************)
(* Practice deck of the opening trainer: features/files/utils/opening.ts   *)
(* (buildFromTree, getStats, getCardForReview, updateCardPerformance) and  *)
(* the PracticePanel component that drives them (seed effect, newPractice, *)
(* auto-advance effect, Next / Skip / See answer / Reset handlers, the     *)
(* playback interval).                                                     *)
(*                                                                         *)
(* Dates are integers (one unit = one clock reading).  `null` results are  *)
(* modelled as the empty sequence for "Position | null" and as NullDate    *)
(* for "Date | null".                                                      *)
(***************************************************************************)
EXTENDS Integers, Sequences, FiniteSets, TLC

\* ------------------------------------------------------------------ bounds
MaxTime == 2      \* the clock runs from 0 to MaxTime
MaxLogs == 2      \* no handler grades a deck whose logs hold MaxLogs entries
MaxAdvCalls == 2  \* the auto-advance invocation counter saturates here

NullDate == -1    \* Stats.nextDue = null

\* ------------------------------------------------------------- move trees
\* TreeNode: fen, halfMoves, san (the move leading to the node), children.
Leaf(fen, halfMoves, san) ==
    [fen |-> fen, halfMoves |-> halfMoves, san |-> san, children |-> <<>>]

Node(fen, halfMoves, san, children) ==
    [fen |-> fen, halfMoves |-> halfMoves, san |-> san, children |-> children]

\* 1.e4 e5 and 1.d4 d5 reach the same fen "open" (a transposition).
TreeA ==
    Node("start", 0, "",
         << Node("e4", 1, "e4",
                 << Node("open", 2, "e5", << Leaf("openNf3", 3, "Nf3") >>) >>),
            Node("d4", 1, "d4",
                 << Node("open", 2, "d5", << Leaf("openc4", 3, "c4") >>) >>) >>)

\* The same first move answered differently: the card for "e4" gets another
\* answer, and no node with White to move is left to ask about.
TreeB ==
    Node("start", 0, "", << Node("e4", 1, "e4", << Leaf("sicilian", 2, "c5") >>) >>)

Trees == {TreeA, TreeB}

\* 1.e4 with two replies (e5 first), the line 1.e4 e5 2.Nf3 Nc6 continued, and
\* 1.d4 followed by a child without a move notation.
TreeC ==
    Node("start", 0, "",
         << Node("e4", 1, "e4",
                 << Node("open", 2, "e5",
                         << Node("knight", 3, "Nf3",
                                 << Leaf("knights", 4, "Nc6") >>) >>),
                    Leaf("sicilian", 2, "c5") >>),
            Node("d4", 1, "d4", << Leaf("d4x", 2, "") >>) >>)

Sides == {"white", "black"}

\* headers.start values (headers.start || [] turns an absent start into []).
Starts == {<<>>, <<0>>}

\* Inputs of buildFromTree taken on their own.
BuildTrees == Trees \cup {TreeC}

BuildStarts == Starts \cup {<<0, 0>>, <<1>>}

\* ------------------------------------------------- tree collaborator (utils)
\* isPrefix(shorter, longer): shorter is no longer than longer and each of its
\* elements equals the element of longer at the same index.
isPrefix(shorter, longer) ==
    /\ Len(shorter) <= Len(longer)
    /\ \A k \in 1..Len(shorter) : shorter[k] = longer[k]

\* Child paths are 0-based, as in the source: position [0, 1] is the second
\* child of the first child of the root.
RECURSIVE PushChildren(_, _, _, _)
PushChildren(stack, position, children, k) ==
    IF k = 0 THEN stack
    ELSE PushChildren(Append(stack, [position |-> Append(position, k - 1),
                                     node |-> children[k]]),
                      position, children, k - 1)

\* treeIterator: depth-first pre-order, siblings in stored order, every node once.
RECURSIVE IterateStack(_, _)
IterateStack(stack, out) ==
    IF Len(stack) = 0 THEN out
    ELSE LET top == stack[Len(stack)]
             rest == SubSeq(stack, 1, Len(stack) - 1)
         IN  IterateStack(PushChildren(rest, top.position, top.node.children,
                                       Len(top.node.children)),
                          Append(out, top))

treeIterator(tree) == IterateStack(<< [position |-> <<>>, node |-> tree] >>, <<>>)

\* findFen: the path of the first node in traversal order with this fen, [] if none.
RECURSIVE FindFenFrom(_, _, _)
FindFenFrom(items, k, fen) ==
    IF k > Len(items) THEN <<>>
    ELSE IF items[k].node.fen = fen THEN items[k].position
    ELSE FindFenFrom(items, k + 1, fen)

findFen(fen, tree) == FindFenFrom(treeIterator(tree), 1, fen)

RECURSIVE getNodeAtPath(_, _)
getNodeAtPath(tree, path) ==
    IF Len(path) = 0 THEN tree
    ELSE getNodeAtPath(tree.children[path[1] + 1], Tail(path))

Paths(tree) == {treeIterator(tree)[k].position : k \in 1..Len(treeIterator(tree))}

Least(S) == CHOOSE k \in S : \A j \in S : k <= j

\* ------------------------------------------ spaced-repetition engine (ts-fsrs)
\* createEmptyCard(): zero repetitions, due at creation time.
createEmptyCard(t) == [due |-> t, reps |-> 0]

\* Intervals the engine may schedule for a grade; the longer ones are fuzzed
\* (generatorParameters({ enable_fuzz: true })), so the model leaves them open.
RepeatDelays(grade) ==
    CASE grade = 1 -> {1}
      [] grade = 2 -> {1}
      [] grade = 3 -> {2}
      [] grade = 4 -> {2, 3}

\* f.repeat(card, now): one outcome { card, log } per grade 1..4.
repeat(card, t, delay) ==
    [grade \in 1..4 |->
        [card |-> [due |-> t + delay[grade], reps |-> card.reps + 1],
         log  |-> [rating |-> grade]]]

\* The choices of the engine for one call: an interval for every grade.
DelayChoices == {d \in [1..4 -> 1..3] : \A g \in 1..4 : d[g] \in RepeatDelays(g)}

\* The choices that differ in the outcome for `grade`.
ShortestDelays == [g \in 1..4 |-> Least(RepeatDelays(g))]

DelayChoicesFor(grade) ==
    IF grade \in 1..4
    THEN {[ShortestDelays EXCEPT ![grade] = k] : k \in RepeatDelays(grade)}
    ELSE {ShortestDelays}

\* --------------------------------------------------------- opening.ts
\* The find comparing the answer of a card, not its fen.
HasFenAmongAnswers(cards, fen) == \E k \in 1..Len(cards) : cards[k].answer = fen

\* Position: [fen, answer, card].  cards.find((c) => c.fen === fen)
HasFen(cards, fen) == \E k \in 1..Len(cards) : cards[k].fen = fen

\* The side-to-move test with the sides exchanged.
ParityMatchesOtherSide(color, halfMoves) ==
    \/ color = "white" /\ halfMoves % 2 = 1
    \/ color = "black" /\ halfMoves % 2 = 0

ParityMatches(color, halfMoves) ==
    \/ color = "white" /\ halfMoves % 2 = 0
    \/ color = "black" /\ halfMoves % 2 = 1

\* The loop body without the test for a fen already on a card.
BuildStepWithoutFind(cards, item, color, start, t) ==
    IF \/ Len(item.node.children) = 0
       \/ isPrefix(item.position, start)
       \/ item.node.children[1].san = ""
    THEN cards
    ELSE IF (color = "white" /\ item.node.halfMoves % 2 = 0)
            \/ (color = "black" /\ item.node.halfMoves % 2 = 1)
         THEN Append(cards, [fen    |-> item.node.fen,
                             answer |-> item.node.children[1].san,
                             card   |-> [due |-> t, reps |-> 0]])
         ELSE cards

\* The loop body with the prefix test turned round: isPrefix(start, item.position).
BuildStepPrefixInverted(cards, item, color, start, t) ==
    IF \/ Len(item.node.children) = 0
       \/ isPrefix(start, item.position)
       \/ item.node.children[1].san = ""
       \/ \E k \in 1..Len(cards) : cards[k].fen = item.node.fen
    THEN cards
    ELSE IF (color = "white" /\ item.node.halfMoves % 2 = 0)
            \/ (color = "black" /\ item.node.halfMoves % 2 = 1)
         THEN Append(cards, [fen    |-> item.node.fen,
                             answer |-> item.node.children[1].san,
                             card   |-> [due |-> t, reps |-> 0]])
         ELSE cards

\* The loop body excluding only the paths shorter than the mastered prefix.
BuildStepProperPrefix(cards, item, color, start, t) ==
    IF \/ Len(item.node.children) = 0
       \/ (isPrefix(item.position, start) /\ Len(item.position) < Len(start))
       \/ item.node.children[1].san = ""
       \/ \E k \in 1..Len(cards) : cards[k].fen = item.node.fen
    THEN cards
    ELSE IF (color = "white" /\ item.node.halfMoves % 2 = 0)
            \/ (color = "black" /\ item.node.halfMoves % 2 = 1)
         THEN Append(cards, [fen    |-> item.node.fen,
                             answer |-> item.node.children[1].san,
                             card   |-> [due |-> t, reps |-> 0]])
         ELSE cards

\* One turn of the for-loop of buildFromTree: skip the item or push a card.
BuildStep(cards, item, color, start, t) ==
    IF \/ Len(item.node.children) = 0
       \/ isPrefix(item.position, start)
       \/ item.node.children[1].san = ""
       \/ HasFen(cards, item.node.fen)
    THEN cards
    ELSE IF ParityMatches(color, item.node.halfMoves)
         THEN Append(cards, [fen    |-> item.node.fen,
                             answer |-> item.node.children[1].san,
                             card   |-> createEmptyCard(t)])
         ELSE cards

RECURSIVE BuildLoop(_, _, _, _, _, _)
BuildLoop(items, k, cards, color, start, t) ==
    IF k > Len(items) THEN cards
    ELSE BuildLoop(items, k + 1, BuildStep(cards, items[k], color, start, t),
                   color, start, t)

\* The build leaving after the first card it pushed.
buildFromTreeFirstOnly(tree, color, start, t) ==
    LET cards == BuildLoop(treeIterator(tree), 1, <<>>, color, start, t)
    IN  IF Len(cards) > 1 THEN << cards[1] >> ELSE cards

\* buildFromTree(tree, color, start), run at clock reading t.
buildFromTree(tree, color, start, t) ==
    BuildLoop(treeIterator(tree), 1, <<>>, color, start, t)

\* The loop body counting a card with reps = 0 as unseen and going on to the
\* due test with it.
StatsStepFallingThrough(stats, card, t) ==
    LET seen == IF card.card.reps = 0
                THEN [stats EXCEPT !.unseen = @ + 1] ELSE stats
    IN  IF card.card.due <= t
        THEN [seen EXCEPT !.due = @ + 1]
        ELSE [seen EXCEPT !.practiced = @ + 1]

\* The loop body that sets nextDue once and never lowers it.
StatsStepKeepingFirst(stats, card, t) ==
    IF card.card.reps = 0
    THEN [stats EXCEPT !.unseen = @ + 1]
    ELSE LET counted == IF card.card.due <= t
                        THEN [stats EXCEPT !.due = @ + 1]
                        ELSE [stats EXCEPT !.practiced = @ + 1]
         IN  IF counted.nextDue = NullDate
             THEN [counted EXCEPT !.nextDue = card.card.due]
             ELSE counted

\* The loop body counting a card as due only after its due date has passed.
StatsStepDueStrictly(stats, card, t) ==
    IF card.card.reps = 0
    THEN [stats EXCEPT !.unseen = @ + 1]
    ELSE LET cardDue == card.card.due
             counted == IF cardDue < t
                        THEN [stats EXCEPT !.due = @ + 1]
                        ELSE [stats EXCEPT !.practiced = @ + 1]
         IN  IF counted.nextDue = NullDate
             THEN [counted EXCEPT !.nextDue = cardDue]
             ELSE IF cardDue < counted.nextDue
                  THEN [counted EXCEPT !.nextDue = cardDue]
                  ELSE counted

\* One turn of the for-loop of getStats.
StatsStep(stats, card, t) ==
    IF card.card.reps = 0
    THEN [stats EXCEPT !.unseen = @ + 1]
    ELSE LET cardDue == card.card.due
             counted == IF cardDue <= t
                        THEN [stats EXCEPT !.due = @ + 1]
                        ELSE [stats EXCEPT !.practiced = @ + 1]
         IN  IF counted.nextDue = NullDate
             THEN [counted EXCEPT !.nextDue = cardDue]
             ELSE IF cardDue < counted.nextDue
                  THEN [counted EXCEPT !.nextDue = cardDue]
                  ELSE counted

RECURSIVE StatsLoop(_, _, _, _)
StatsLoop(positions, k, stats, t) ==
    IF k > Len(positions) THEN stats
    ELSE StatsLoop(positions, k + 1, StatsStep(stats, positions[k], t), t)

\* getStats(positions), with now = t read once.
getStats(positions, t) ==
    StatsLoop(positions, 1,
              [unseen |-> 0, due |-> 0, practiced |-> 0, nextDue |-> NullDate,
               total |-> Len(positions)],
              t)

\* The due test with < for <=.
\* 0 <= i < positions.length
InRange(positions, i) == i >= 0 /\ i < Len(positions)

IsDueStrictly(position, t) == position.card.due < t

IsDue(position, t) == position.card.due <= t

\* Selection of the card that has been due longest instead of the first in
\* list order.
getCardForReviewEarliest(positions, options, t, r) ==
    IF options.random
    THEN IF InRange(positions, r) THEN << positions[r + 1] >> ELSE <<>>
    ELSE LET filtered == SelectSeq(positions, LAMBDA position : IsDue(position, t))
         IN  IF Len(filtered) > 0
             THEN << CHOOSE c \in {filtered[k] : k \in 1..Len(filtered)} :
                         \A k \in 1..Len(filtered) :
                             c.card.due <= filtered[k].card.due >>
             ELSE <<>>

\* options = { random: false }, the default of getCardForReview.
DefaultOptions == [random |-> FALSE]

\* The values Math.floor(Math.random() * positions.length) can take.
RandomIndices(positions) ==
    IF Len(positions) = 0 THEN {0} ELSE 0..(Len(positions) - 1)

\* getCardForReview(positions, options) with now = t, r being the value of
\* Math.floor(Math.random() * positions.length): <<c>> for the card c
\* returned, <<>> for null or undefined.  With options.random any card of the
\* list may come back, due or not; an empty list gives positions[0], which is
\* undefined.
getCardForReview(positions, options, t, r) ==
    IF options.random
    THEN IF InRange(positions, r) THEN << positions[r + 1] >> ELSE <<>>
    ELSE LET filtered == SelectSeq(positions, LAMBDA position : IsDue(position, t))
         IN  IF Len(filtered) > 0 THEN << filtered[1] >> ELSE <<>>

\* The updater updateCardPerformance hands to setPositions.  i is the
\* 0-based index of the source.  newPositions[i] = {...newPositions[i], card}
\* writes a local copy; reading data.positions[i].fen of a missing element
\* throws a TypeError, and the updater then returns nothing.
UpdaterThrows(data, i) == ~InRange(data.positions, i)

\* The updater returning the new entry as the whole log.
UpdaterReplacingLogs(data, i, newCard, log) ==
    [positions |-> [data.positions EXCEPT ![i + 1] = [@ EXCEPT !.card = newCard]],
     logs |-> << [rating |-> log.rating, fen |-> data.positions[i + 1].fen] >>]

Updater(data, i, newCard, log) ==
    LET newPositions == [data.positions EXCEPT ![i + 1] = [@ EXCEPT !.card = newCard]]
        newLogs == Append(data.logs,
                          [rating |-> log.rating,
                           fen |-> data.positions[i + 1].fen])
    IN  [positions |-> newPositions, logs |-> newLogs]

\* updateCardPerformance returning quietly on arguments it cannot use.
updateCardPerformanceQuietly(data, i, card, grade, t, delay) ==
    IF grade \notin 1..4 \/ i < 0 \/ i >= Len(data.positions)
    THEN [deck |-> data, threw |-> FALSE]
    ELSE LET outcome == [card |-> [due |-> t + delay[grade], reps |-> card.reps + 1],
                         log |-> [rating |-> grade]]
         IN  [deck |-> [positions |-> [data.positions EXCEPT ![i + 1].card = outcome.card],
                        logs |-> Append(data.logs, [rating |-> grade,
                                                    fen |-> data.positions[i + 1].fen])],
              threw |-> FALSE]

\* const { card: newCard, log } = schedulingCards[grade] throws a TypeError
\* when schedulingCards has no entry for grade.
GradeThrows(grade) == grade \notin 1..4

\* updateCardPerformance(setPositions, i, card, grade) at clock reading t, the
\* engine choosing `delay`: the deck after the call and whether it threw.
updateCardPerformance(data, i, card, grade, t, delay) ==
    IF GradeThrows(grade) THEN [deck |-> data, threw |-> TRUE]
    ELSE LET outcome == repeat(card, t, delay)[grade]
         IN  IF UpdaterThrows(data, i) THEN [deck |-> data, threw |-> TRUE]
             ELSE [deck |-> Updater(data, i, outcome.card, outcome.log),
                   threw |-> FALSE]

\* ------------------------------------------------------ PracticePanel state
VARIABLES
    deck,                    \* deckAtomFamily(...) of the file and game of
                             \* currentTab: [positions, logs]
    otherDeck,               \* deckAtomFamily(...) of another file or game
    root,                    \* store.root: the move tree
    headers,                 \* store.headers: [orientation, start]
    position,                \* store.position: path of the current node
    positionEntry,           \* the fen whose fenToPosition array of the last
                             \* render is the very array in store.position,
                             \* "none" when it is another array
    stats,                   \* getStats(deck.positions) of the last render
    practiceAnimationSpeed,  \* practiceAnimationSpeedAtom
    invisible,               \* currentInvisibleAtom
    isAnimating,             \* useState(false)
    animation,               \* animationIntervalRef and the interval's closure
    modalOpen,               \* the reset confirmation modal is open
    mounted,                 \* PracticePanel is in the tree of the page
    pending,                 \* effects whose dependencies changed in the last render
    advCalls,                \* newPractice calls by the auto-advance effect
                             \* since logs was last written
    now,                     \* the clock, new Date()
    lastOp,                  \* the handler or step that ran last
    threw                    \* whether it ended in an uncaught exception

vars == << deck, otherDeck, root, headers, position, positionEntry, stats,
           practiceAnimationSpeed, invisible, isAnimating, animation, modalOpen,
           mounted, pending, advCalls, now, lastOp, threw >>

Speeds == {"disabled", "normal"}

\* animationIntervalRef.current === null
NoAnimation == [running |-> FALSE, targetPosition |-> <<>>, currentStep |-> 0]

NoEffects == [seed |-> FALSE, advance |-> FALSE]

\* s.currentNode().fen
fen == getNodeAtPath(root, position).fen

\* The useMemo index fen -> path over the cards of `positions`.
fenToPosition(positions, tree) ==
    [f \in {positions[k].fen : k \in 1..Len(positions)} |-> findFen(f, tree)]

\* deck.positions.findIndex((c) => c.fen === fen): 0-based, -1 if absent.
findIndex(positions, f) ==
    IF HasFen(positions, f)
    THEN (CHOOSE k \in 1..Len(positions) :
              /\ positions[k].fen = f
              /\ \A j \in 1..(k - 1) : positions[j].fen # f) - 1
    ELSE -1

\* disabled={stats.due === 0 && stats.unseen === 0} of Next and Skip: stats
\* is computed when the panel renders, and the passing of time renders
\* nothing.
Disabled == stats.due = 0 /\ stats.unseen = 0

\* What newPractice may write; moved records that store.position became
\* another array object.
View == [position |-> position, entry |-> positionEntry, moved |-> FALSE,
         invisible |-> invisible, isAnimating |-> isAnimating,
         animation |-> animation]

\* store.goToMove(path): the store keeps the array it is handed.  entry names
\* the fenToPosition array handed over, "none" stands for an array made for
\* this call (a literal, a slice, the result of a search).  Handing over the
\* array the store already holds changes nothing.
goToMove(v, path, entry) ==
    IF entry # "none" /\ v.entry = entry THEN v
    ELSE [v EXCEPT !.position = path, !.entry = entry, !.moved = TRUE]

\* newPractice() of a render that saw `positions`, run on view v.
newPractice(positions, v) ==
    IF Len(positions) = 0 THEN v
    ELSE LET c == getCardForReview(positions, DefaultOptions, now, 0)
         IN  IF c = <<>> THEN v
             ELSE LET targetPosition == fenToPosition(positions, root)[c[1].fen]
                      startPosition ==
                          IF isPrefix(v.position, targetPosition)
                          THEN v.position ELSE <<>>
                      w == IF isPrefix(v.position, targetPosition)
                           THEN v ELSE goToMove(v, <<>>, "none")
                  IN  IF \/ practiceAnimationSpeed = "disabled"
                         \/ Len(targetPosition) = 0
                      THEN [goToMove(v, targetPosition, c[1].fen)
                               EXCEPT !.invisible = TRUE,
                                      !.animation = NoAnimation]
                      ELSE [w EXCEPT !.isAnimating = TRUE,
                                     !.animation =
                                         [running |-> TRUE,
                                          targetPosition |-> targetPosition,
                                          currentStep |-> Len(startPosition)]]

\* if (animationIntervalRef.current !== null) { clearInterval; setIsAnimating(false) }
ClearAnimation(v) ==
    IF v.animation.running
    THEN [v EXCEPT !.animation = NoAnimation, !.isAnimating = FALSE]
    ELSE v

\* The effects the next commit has to run after a handler wrote the state:
\* React compares dependencies with Object.is, so the auto-advance effect runs
\* again when store.position is another array, equal or not.
Rerender(deckWritten, rootChanged, headersChanged, v, speedChanged) ==
    [seed    |-> deckWritten \/ rootChanged \/ headersChanged,
     advance |-> deckWritten \/ rootChanged \/ speedChanged \/ v.moved]

\* The panel renders again when a value it subscribes to changed: the deck,
\* the tree, the headers, the speed, store.position, isAnimating, or one of
\* currentTab, positionsOpen, logsOpen and tab (localChanged).  The invisible
\* atom is only written (useSetAtom) and the interval is a ref.
Renders(deckWritten, rootChanged, headersChanged, v, speedChanged, localChanged) ==
    \/ deckWritten \/ rootChanged \/ headersChanged \/ speedChanged
    \/ v.moved
    \/ v.isAnimating # isAnimating
    \/ localChanged

\* What a render leaves behind: the effects to run, stats of the deck at the
\* clock reading of the render, and a fenToPosition index that is rebuilt,
\* with new arrays, when deck.positions or root changed.  While the panel is
\* unmounted nothing renders and no effect is queued.
Commit(deckWritten, rootChanged, headersChanged, v, speedChanged, localChanged) ==
    IF mounted
    THEN /\ pending' = Rerender(deckWritten, rootChanged, headersChanged, v,
                                speedChanged)
         /\ stats' = IF Renders(deckWritten, rootChanged, headersChanged, v,
                                speedChanged, localChanged)
                     THEN getStats(IF deckWritten THEN deck'.positions
                                   ELSE deck.positions, now)
                     ELSE stats
         /\ positionEntry' = IF deckWritten \/ rootChanged THEN "none"
                             ELSE v.entry
    ELSE /\ pending' = NoEffects
         /\ stats' = stats
         /\ positionEntry' = "none"

Idle == ~pending.seed /\ ~pending.advance

SetView(v) ==
    /\ position' = v.position
    /\ invisible' = v.invisible
    /\ isAnimating' = v.isAnimating
    /\ animation' = v.animation

Headers == [orientation : Sides, start : Starts]

EmptyDeck == [positions |-> <<>>, logs |-> <<>>]

\* The panel mounts on `data`, playback set to one of `speeds`: every effect
\* runs after the first render.
Mount(data, speeds) ==
    /\ deck = data
    /\ otherDeck = EmptyDeck
    /\ root \in Trees
    /\ headers \in Headers
    /\ position = <<>>
    /\ positionEntry = "none"
    /\ stats = getStats(data.positions, 0)
    /\ mounted = TRUE
    /\ practiceAnimationSpeed \in speeds
    /\ invisible = FALSE
    /\ isAnimating = FALSE
    /\ animation = NoAnimation
    /\ modalOpen = FALSE
    /\ pending = [seed |-> TRUE, advance |-> TRUE]
    /\ advCalls = 0
    /\ now = 0
    /\ lastOp = "mount"
    /\ threw = FALSE

\* ------------------------------------------------------------- the effects
\* The seed effect without the test for an empty positions list.
SeedWritesAlways(data) ==
    Len(buildFromTree(root, headers.orientation, headers.start, now)) > 0

\* The seed effect with the test on positions turned round.
SeedWritesOnCards(data) ==
    /\ Len(buildFromTree(root, headers.orientation, headers.start, now)) > 0
    /\ Len(data.positions) > 0

\* Seed effect: if (newDeck.length > 0 && deck.positions.length === 0)
SeedWrites(data) ==
    /\ Len(buildFromTree(root, headers.orientation, headers.start, now)) > 0
    /\ Len(data.positions) = 0

SeedEffect(data) ==
    IF SeedWrites(data)
    THEN [positions |-> buildFromTree(root, headers.orientation, headers.start, now),
          logs |-> <<>>]
    ELSE data

\* Auto-advance effect: if (lastLogEntry?.rating === 4) newPractice()
AdvanceFires(data) ==
    /\ Len(data.logs) > 0
    /\ data.logs[Len(data.logs)].rating = 4

Bump(n) == IF n < MaxAdvCalls THEN n + 1 ELSE n

\* One commit's passive effects, in declaration order, each only if its
\* dependencies changed, both on the deck the render saw.
FlushEffects ==
    /\ ~Idle
    /\ LET seeds == pending.seed /\ SeedWrites(deck)
           fires == pending.advance /\ AdvanceFires(deck)
           v     == IF fires THEN newPractice(deck.positions, View) ELSE View
       IN  /\ deck' = IF pending.seed THEN SeedEffect(deck) ELSE deck
           /\ SetView(v)
           /\ Commit(seeds, FALSE, FALSE, v, FALSE, FALSE)
           /\ advCalls' = IF seeds THEN 0
                          ELSE IF fires THEN Bump(advCalls) ELSE advCalls
    /\ lastOp' = "effects"
    /\ threw' = FALSE
    /\ UNCHANGED << mounted, otherDeck, root, headers, practiceAnimationSpeed, modalOpen, now >>

\* ------------------------------------------------------------ the handlers
\* A caller of updateCardPerformance(setDeck, i, card, grade): the card is the
\* one the caller read at index i (a fresh card when there is none).
Grade(i, grade, delay) ==
    /\ Idle /\ ~modalOpen
    /\ Len(deck.logs) < MaxLogs
    /\ LET card == IF InRange(deck.positions, i)
                   THEN deck.positions[i + 1].card ELSE createEmptyCard(now)
           r == updateCardPerformance(deck, i, card, grade, now, delay)
       IN  /\ deck' = r.deck
           /\ threw' = r.threw
           /\ Commit(~r.threw, FALSE, FALSE, View, FALSE, FALSE)
           /\ advCalls' = IF r.threw THEN advCalls ELSE 0
    /\ lastOp' = "grade"
    /\ UNCHANGED << mounted, otherDeck, root, headers, position, practiceAnimationSpeed, invisible,
                    isAnimating, animation, modalOpen, now >>

\* A handler that calls updateCardPerformance twice before the panel renders
\* again: both calls pass the card of the render the handler belongs to, and
\* the second updater runs on the deck the first one returned.  A throw in
\* the first call ends the handler.
GradeTwice(i, grade1, grade2, delay1, delay2) ==
    /\ Idle /\ ~modalOpen
    /\ Len(deck.logs) < MaxLogs
    /\ LET card == IF InRange(deck.positions, i)
                   THEN deck.positions[i + 1].card ELSE createEmptyCard(now)
           r1 == updateCardPerformance(deck, i, card, grade1, now, delay1)
           r2 == IF r1.threw THEN r1
                 ELSE updateCardPerformance(r1.deck, i, card, grade2, now, delay2)
       IN  /\ deck' = r2.deck
           /\ threw' = r2.threw
           /\ Commit(~r1.threw, FALSE, FALSE, View, FALSE, FALSE)
           /\ advCalls' = IF r1.threw THEN advCalls ELSE 0
    /\ lastOp' = "gradeTwice"
    /\ UNCHANGED << mounted, otherDeck, root, headers, position, practiceAnimationSpeed, invisible,
                    isAnimating, animation, modalOpen, now >>

\* Next button.
Next_ ==
    /\ mounted /\ Idle /\ ~modalOpen
    /\ ~Disabled
    /\ LET v == newPractice(deck.positions, ClearAnimation(View))
       IN  /\ SetView(v)
           /\ Commit(FALSE, FALSE, FALSE, v, FALSE, FALSE)
    /\ lastOp' = "next"
    /\ threw' = FALSE
    /\ UNCHANGED << mounted, otherDeck, deck, root, headers, practiceAnimationSpeed, modalOpen,
                    advCalls, now >>

\* useHotkeys([["n", () => newPractice()]])
HotkeyN ==
    /\ mounted /\ Idle
    /\ LET v == newPractice(deck.positions, View)
       IN  /\ SetView(v)
           /\ Commit(FALSE, FALSE, FALSE, v, FALSE, FALSE)
    /\ lastOp' = "hotkey"
    /\ threw' = FALSE
    /\ UNCHANGED << mounted, otherDeck, deck, root, headers, practiceAnimationSpeed, modalOpen,
                    advCalls, now >>

\* Skip button: grade the displayed card 2, then newPractice() of the render
\* the click happened in.
Skip(delay) ==
    /\ mounted /\ Idle /\ ~modalOpen
    /\ ~Disabled
    /\ LET cleared == ClearAnimation(View)
           currentIndex == findIndex(deck.positions, fen)
       IN  IF currentIndex = -1
           THEN /\ SetView(cleared)
                /\ Commit(FALSE, FALSE, FALSE, cleared, FALSE, FALSE)
                /\ UNCHANGED << deck, advCalls >>
           ELSE /\ Len(deck.logs) < MaxLogs
                /\ LET r == updateCardPerformance(
                                deck, currentIndex,
                                deck.positions[currentIndex + 1].card, 2, now, delay)
                       v == newPractice(deck.positions, cleared)
                   IN  /\ deck' = r.deck
                       /\ SetView(v)
                       /\ Commit(TRUE, FALSE, FALSE, v, FALSE, FALSE)
                       /\ advCalls' = 0
    /\ lastOp' = "skip"
    /\ threw' = FALSE
    /\ UNCHANGED << mounted, otherDeck, root, headers, practiceAnimationSpeed, modalOpen, now >>

\* store.goToNext(): to the first child, if there is one.
goToNext(path) ==
    IF Len(getNodeAtPath(root, path).children) > 0 THEN Append(path, 0) ELSE path

\* See answer button.
SeeAnswer ==
    /\ mounted /\ Idle /\ ~modalOpen
    /\ LET cleared == ClearAnimation(View)
           shown == [cleared EXCEPT !.invisible = FALSE]
           v == IF goToNext(position) = position THEN shown
                ELSE goToMove(shown, goToNext(position), "none")
       IN  /\ SetView(v)
           /\ Commit(FALSE, FALSE, FALSE, v, FALSE, FALSE)
    /\ lastOp' = "seeAnswer"
    /\ threw' = FALSE
    /\ UNCHANGED << mounted, otherDeck, deck, root, headers, practiceAnimationSpeed, modalOpen,
                    advCalls, now >>

\* Reset button: modals.openConfirmModal(...)
ResetOpen ==
    /\ mounted /\ Idle /\ ~modalOpen
    /\ modalOpen' = TRUE
    /\ pending' = NoEffects
    /\ lastOp' = "resetOpen"
    /\ threw' = FALSE
    /\ UNCHANGED << mounted, otherDeck, deck, root, headers, position, positionEntry, stats,
                    practiceAnimationSpeed, invisible, isAnimating, animation,
                    advCalls, now >>

ResetCancel ==
    /\ Idle /\ modalOpen
    /\ modalOpen' = FALSE
    /\ pending' = NoEffects
    /\ lastOp' = "resetCancel"
    /\ threw' = FALSE
    /\ UNCHANGED << mounted, otherDeck, deck, root, headers, position, positionEntry, stats,
                    practiceAnimationSpeed, invisible, isAnimating, animation,
                    advCalls, now >>

\* onConfirm rebuilding positions and keeping logs.
ResetConfirmKeepingLogs ==
    /\ Idle /\ modalOpen
    /\ deck' = [positions |-> buildFromTree(root, headers.orientation,
                                            headers.start, now),
                logs |-> deck.logs]
    /\ modalOpen' = FALSE
    /\ Commit(TRUE, FALSE, FALSE, View, FALSE, FALSE)
    /\ advCalls' = 0
    /\ lastOp' = "resetConfirm"
    /\ threw' = FALSE
    /\ UNCHANGED << mounted, otherDeck, root, headers, position, practiceAnimationSpeed, invisible,
                    isAnimating, animation, now >>

\* onConfirm: setDeck({ positions: buildFromTree(...), logs: [] })
ResetConfirm ==
    /\ Idle /\ modalOpen
    /\ deck' = [positions |-> buildFromTree(root, headers.orientation,
                                            headers.start, now),
                logs |-> <<>>]
    /\ modalOpen' = FALSE
    /\ Commit(TRUE, FALSE, FALSE, View, FALSE, FALSE)
    /\ advCalls' = 0
    /\ lastOp' = "resetConfirm"
    /\ threw' = FALSE
    /\ UNCHANGED << mounted, otherDeck, root, headers, position, practiceAnimationSpeed, invisible,
                    isAnimating, animation, now >>

\* The interval callback counting a repetition of the card it arrived at.
IntervalTickTouchingDeck ==
    /\ Idle
    /\ animation.running
    /\ LET arrived == animation.currentStep >= Len(animation.targetPosition)
           v == IF ~arrived
                THEN [goToMove(View,
                               SubSeq(animation.targetPosition, 1,
                                      animation.currentStep + 1), "none")
                         EXCEPT !.animation.currentStep = @ + 1]
                ELSE [View EXCEPT !.animation = NoAnimation,
                                  !.isAnimating = FALSE,
                                  !.invisible = TRUE]
           i == findIndex(deck.positions, fen)
       IN  /\ SetView(v)
           /\ deck' = IF arrived /\ i >= 0
                      THEN [deck EXCEPT !.positions[i + 1].card.reps = @ + 1]
                      ELSE deck
           /\ Commit(arrived /\ i >= 0, FALSE, FALSE, v, FALSE, FALSE)
    /\ lastOp' = "interval"
    /\ threw' = FALSE
    /\ UNCHANGED << mounted, otherDeck, root, headers, practiceAnimationSpeed, modalOpen,
                    advCalls, now >>

\* One firing of the window.setInterval callback of newPractice.
IntervalTick ==
    /\ Idle
    /\ animation.running
    /\ LET v == IF animation.currentStep < Len(animation.targetPosition)
                THEN [goToMove(View,
                               SubSeq(animation.targetPosition, 1,
                                      animation.currentStep + 1), "none")
                         EXCEPT !.animation.currentStep = @ + 1]
                ELSE [View EXCEPT !.animation = NoAnimation,
                                  !.isAnimating = FALSE,
                                  !.invisible = TRUE]
       IN  /\ SetView(v)
           /\ Commit(FALSE, FALSE, FALSE, v, FALSE, FALSE)
    /\ lastOp' = "interval"
    /\ threw' = FALSE
    /\ UNCHANGED << mounted, otherDeck, deck, root, headers, practiceAnimationSpeed, modalOpen,
                    advCalls, now >>

\* currentTab, positionsOpen, logsOpen and tab of PracticePanel.
LocalState == {"currentTab", "positionsOpen", "logsOpen", "tab"}

\* A click on Show all or Show logs, a change of the panel's tab, or
\* currentTabAtom getting another value.  The two buttons are there when
\* stats.total > 0.  `another` says that the new currentTab names another file
\* or game: deckAtomFamily then hands the panel the deck of that key, another
\* object with other arrays, so the panel renders on it and both effects run
\* again; the deck it read before stays in the family as it was.  Otherwise
\* the panel renders and nothing else happens.  currentTabAtom lives outside
\* the panel and changes whether it is mounted or not.
PanelStateChange(which, another) ==
    /\ Idle /\ ~modalOpen
    /\ mounted \/ another
    /\ which \in {"positionsOpen", "logsOpen"} => stats.total > 0
    /\ another => which = "currentTab"
    /\ IF another
       THEN /\ deck' = otherDeck
            /\ otherDeck' = deck
            /\ Commit(TRUE, FALSE, FALSE, View, FALSE, TRUE)
            /\ advCalls' = 0
       ELSE /\ Commit(FALSE, FALSE, FALSE, View, FALSE, TRUE)
            /\ UNCHANGED << deck, otherDeck, advCalls >>
    /\ lastOp' = IF another THEN "switchDeck" ELSE "render"
    /\ threw' = FALSE
    /\ UNCHANGED << mounted, root, headers, position,
                    practiceAnimationSpeed, invisible, isAnimating, animation,
                    modalOpen, now >>

\* The panel is unmounted and the cleanup of the interval effect runs: the
\* deck, the board, the speed and the invisible flag live outside the
\* component, useState and useRef are gone.
Unmount ==
    /\ mounted /\ Idle
    /\ mounted' = FALSE
    /\ animation' = NoAnimation
    /\ isAnimating' = FALSE
    /\ positionEntry' = "none"
    /\ pending' = NoEffects
    /\ lastOp' = "unmount"
    /\ threw' = FALSE
    /\ UNCHANGED << deck, otherDeck, root, headers, position, stats,
                    practiceAnimationSpeed, invisible, modalOpen, advCalls,
                    now >>

\* The panel is mounted again: it renders on what the atoms and the store
\* hold by now, and every effect runs.
Remount ==
    /\ ~mounted
    /\ mounted' = TRUE
    /\ stats' = getStats(deck.positions, now)
    /\ pending' = [seed |-> TRUE, advance |-> TRUE]
    /\ lastOp' = "mount"
    /\ threw' = FALSE
    /\ UNCHANGED << deck, otherDeck, root, headers, position, positionEntry,
                    practiceAnimationSpeed, invisible, isAnimating, animation,
                    modalOpen, advCalls, now >>

\* ---------------------------------------------------------- the environment
\* goToMove(path) from the board, the notation or the positions and logs modals.
Navigate(path) ==
    /\ Idle /\ ~modalOpen
    /\ LET v == goToMove(View, path, "none")
       IN  /\ SetView(v)
           /\ Commit(FALSE, FALSE, FALSE, v, FALSE, FALSE)
    /\ lastOp' = "navigate"
    /\ threw' = FALSE
    /\ UNCHANGED << mounted, otherDeck, deck, root, headers, practiceAnimationSpeed,
                    modalOpen, advCalls, now >>

\* The tree is edited while no playback runs; a path the new tree lacks
\* falls back to the root.
EditTree(tree) ==
    /\ Idle /\ ~modalOpen
    /\ ~animation.running
    /\ tree # root
    /\ root' = tree
    /\ position' = IF position \in Paths(tree) THEN position ELSE <<>>
    /\ Commit(FALSE, TRUE, FALSE, View, FALSE, FALSE)
    /\ lastOp' = "editTree"
    /\ threw' = FALSE
    /\ UNCHANGED << mounted, otherDeck, deck, headers, practiceAnimationSpeed, invisible,
                    isAnimating, animation, modalOpen, advCalls, now >>

SetHeaders(h) ==
    /\ Idle /\ ~modalOpen
    /\ h # headers
    /\ headers' = h
    /\ Commit(FALSE, FALSE, TRUE, View, FALSE, FALSE)
    /\ lastOp' = "setHeaders"
    /\ threw' = FALSE
    /\ UNCHANGED << mounted, otherDeck, deck, root, position, practiceAnimationSpeed,
                    invisible, isAnimating, animation, modalOpen, advCalls,
                    now >>

SetSpeed(speed) ==
    /\ Idle /\ ~modalOpen
    /\ speed # practiceAnimationSpeed
    /\ practiceAnimationSpeed' = speed
    /\ Commit(FALSE, FALSE, FALSE, View, TRUE, FALSE)
    /\ lastOp' = "setSpeed"
    /\ threw' = FALSE
    /\ UNCHANGED << mounted, otherDeck, deck, root, headers, position, invisible,
                    isAnimating, animation, modalOpen, advCalls, now >>

\* Time passes, also between a handler and the effects of its render.
ClockTick ==
    /\ now < MaxTime
    /\ now' = now + 1
    /\ lastOp' = "clock"
    /\ threw' = FALSE
    /\ UNCHANGED << mounted, otherDeck, deck, root, headers, position, positionEntry, stats,
                    practiceAnimationSpeed, invisible, isAnimating, animation,
                    modalOpen, pending, advCalls >>

\* The panel mounts on the empty deck with playback disabled in the settings.
Init == Mount(EmptyDeck, {"disabled"})

\* The same on a document without a mastered prefix.
InitDefault == Init /\ headers.start = <<>>

\* A session on one document with playback disabled: the seed and
\* auto-advance effects, grading, Next, Skip, reset, navigation, renders of
\* the panel for its own state and the clock.  Navigate reaches every path
\* playback could leave the board on; currentTab stays on one file and game.
Next ==
    \/ FlushEffects
    \/ \E i \in 0..(Len(deck.positions) - 1), grade \in 1..4 :
           \E delay \in DelayChoicesFor(grade) : Grade(i, grade, delay)
    \/ Next_
    \/ \E delay \in DelayChoicesFor(2) : Skip(delay)
    \/ ResetOpen
    \/ ResetCancel
    \/ ResetConfirm
    \/ \E path \in Paths(root) : Navigate(path)
    \/ \E which \in LocalState : PanelStateChange(which, FALSE)
    \/ ClockTick

Spec == InitDefault /\ [][Next]_vars

\* Callers of updateCardPerformance with any index from -1 to the length of
\* the list and any grade from 0 to 5, on the decks seeding, grading and
\* resetting lead to.
NextFailFast ==
    \/ FlushEffects
    \/ \E i \in -1..Len(deck.positions), grade \in 0..5 :
           \E delay \in DelayChoicesFor(grade) : Grade(i, grade, delay)
    \/ ResetOpen
    \/ ResetCancel
    \/ ResetConfirm
    \/ ClockTick

SpecFailFast == Init /\ [][NextFailFast]_vars

\* A review session on one document with playback disabled: seeding, grading
\* any card with any grade, Next, Skip, reset and the clock.
NextReview ==
    \/ FlushEffects
    \/ \E i \in 0..(Len(deck.positions) - 1), grade \in 1..4 :
           \E delay \in DelayChoicesFor(grade) : Grade(i, grade, delay)
    \/ Next_
    \/ \E delay \in DelayChoicesFor(2) : Skip(delay)
    \/ ResetOpen
    \/ ResetCancel
    \/ ResetConfirm
    \/ ClockTick

SpecReview == InitDefault /\ [][NextReview]_vars

\* A session in which the document is edited: the tree or the headers change
\* under a deck that was seeded, graded (a correct answer, grade 4), skipped
\* on or reset before.
NextEdit ==
    \/ FlushEffects
    \/ \E i \in 0..(Len(deck.positions) - 1), delay \in DelayChoicesFor(4) :
           Grade(i, 4, delay)
    \/ \E delay \in DelayChoicesFor(2) : Skip(delay)
    \/ ResetOpen
    \/ ResetCancel
    \/ ResetConfirm
    \/ \E tree \in Trees : EditTree(tree)
    \/ \E h \in Headers : SetHeaders(h)
    \/ ClockTick

SpecEdit == Init /\ [][NextEdit]_vars

\* The panel mounts on the empty deck of any of the documents of the build:
\* every tree, side and mastered prefix.
InitSeed ==
    /\ deck = EmptyDeck
    /\ otherDeck = EmptyDeck
    /\ root \in BuildTrees
    /\ headers \in [orientation : Sides, start : BuildStarts]
    /\ position = <<>>
    /\ positionEntry = "none"
    /\ stats = getStats(<<>>, 0)
    /\ mounted = TRUE
    /\ practiceAnimationSpeed = "disabled"
    /\ invisible = FALSE
    /\ isAnimating = FALSE
    /\ animation = NoAnimation
    /\ modalOpen = FALSE
    /\ pending = [seed |-> TRUE, advance |-> TRUE]
    /\ advCalls = 0
    /\ now = 0
    /\ lastOp = "mount"
    /\ threw = FALSE

\* Seeding and resetting while the tree and the headers of the document
\* change.
NextSeed ==
    \/ FlushEffects
    \/ ResetOpen
    \/ ResetCancel
    \/ ResetConfirm
    \/ \E tree \in BuildTrees : EditTree(tree)
    \/ \E h \in [orientation : Sides, start : BuildStarts] : SetHeaders(h)
    \/ ClockTick

SpecSeed == InitSeed /\ [][NextSeed]_vars

\* A session of seeding, grading, skipping and resetting in which a handler
\* may grade a card twice from the render it belongs to.
NextSnapshot ==
    \/ FlushEffects
    \/ \E i \in 0..(Len(deck.positions) - 1), grade \in 1..4 :
           \E delay \in DelayChoicesFor(grade) : Grade(i, grade, delay)
    \/ \E i \in 0..(Len(deck.positions) - 1), grade1 \in 1..4, grade2 \in 1..4 :
           \E delay2 \in DelayChoicesFor(grade2) :
               GradeTwice(i, grade1, grade2, ShortestDelays, delay2)
    \/ \E delay \in DelayChoicesFor(2) : Skip(delay)
    \/ ResetOpen
    \/ ResetCancel
    \/ ResetConfirm
    \/ ClockTick

SpecSnapshot == Init /\ [][NextSnapshot]_vars

\* React runs the passive effects of a commit before it handles anything
\* else in the panel: a pending flush does not wait for ever.  This is weak
\* fairness of FlushEffects, written out with ~Idle, the condition under which
\* the flush is enabled, in the place of ENABLED <<FlushEffects>>_vars.
EffectsFairness == <>[](~Idle) => []<><<FlushEffects>>_vars

SpecEditFair == SpecEdit /\ EffectsFairness

\* buildFromTree on its own: the inputs are drawn when the behaviour starts,
\* Build calls the function at the current clock reading and keeps the result
\* in deck.positions.
Build ==
    /\ deck' = [positions |-> buildFromTree(root, headers.orientation,
                                            headers.start, now),
                logs |-> <<>>]
    /\ lastOp' = "build"
    /\ threw' = FALSE
    /\ UNCHANGED << mounted, otherDeck, root, headers, position, positionEntry, stats,
                    practiceAnimationSpeed, invisible,
                    isAnimating, animation, modalOpen, pending, advCalls, now >>

InitBuild ==
    /\ deck = EmptyDeck
    /\ otherDeck = EmptyDeck
    /\ root \in BuildTrees
    /\ headers \in [orientation : Sides, start : BuildStarts]
    /\ position = <<>>
    /\ positionEntry = "none"
    /\ stats = getStats(<<>>, 0)
    /\ mounted = TRUE
    /\ practiceAnimationSpeed = "disabled"
    /\ invisible = FALSE
    /\ isAnimating = FALSE
    /\ animation = NoAnimation
    /\ modalOpen = FALSE
    /\ pending = NoEffects
    /\ advCalls = 0
    /\ now = 0
    /\ lastOp = "init"
    /\ threw = FALSE

NextBuild == Build \/ ClockTick

SpecBuild == InitBuild /\ [][NextBuild]_vars

\* getStats on its own.  Decks read back from storage when the panel mounts
\* at clock reading 0: up to three cards, each unseen (created at or before the mount) or practised
\* once with any due date, no logs kept.
StoredCards ==
    {createEmptyCard(0)} \cup {[due |-> d, reps |-> 1] : d \in 0..MaxTime}

StoredFens == << "e4", "d4", "knight" >>

StoredAnswers == << "e5", "d5", "Nc6" >>

StoredDecks ==
    {[positions |-> [k \in 1..n |-> [fen |-> StoredFens[k],
                                     answer |-> StoredAnswers[k],
                                     card |-> cards[k]]],
      logs |-> <<>>] :
         n \in 0..Len(StoredFens), cards \in [1..Len(StoredFens) -> StoredCards]}

\* The document by then is one from which nothing is built for the side, so
\* the seed effect leaves the stored deck as it is.
InitStats ==
    /\ \E d \in StoredDecks : Mount(d, {"disabled"})
    /\ root = TreeB
    /\ headers = [orientation |-> "white", start |-> <<>>]

NextStats ==
    \/ FlushEffects
    \/ \E i \in 0..(Len(deck.positions) - 1), grade \in 1..4 :
           \E delay \in DelayChoicesFor(grade) : Grade(i, grade, delay)
    \/ ClockTick

SpecStats == InitStats /\ [][NextStats]_vars

\* A session with playback: the board is animated move by move to the card
\* (speed "normal") unless the setting is switched to "disabled".  One
\* document, the tree with the two-move lines practised for White, whose card
\* lies two moves deep; correct answers are graded 4; currentTab changes
\* between two games of the file, each with its own deck.
InitPanel ==
    /\ Mount(EmptyDeck, {"normal"})
    /\ root = TreeA
    /\ headers = [orientation |-> "white", start |-> <<>>]

NextPanel ==
    \/ FlushEffects
    \/ \E i \in 0..(Len(deck.positions) - 1), delay \in DelayChoicesFor(4) :
           Grade(i, 4, delay)
    \/ Next_
    \/ HotkeyN
    \/ \E delay \in DelayChoicesFor(2) : Skip(delay)
    \/ SeeAnswer
    \/ IntervalTick
    \/ \E which \in LocalState, another \in BOOLEAN :
           PanelStateChange(which, another)
    \/ Unmount
    \/ Remount
    \/ \E speed \in Speeds : SetSpeed(speed)
    \/ ClockTick

SpecPanel == InitPanel /\ [][NextPanel]_vars

\* ------------------------------------------------------------------ claims
\* The deck after card i (0-based) took the engine's outcome for `grade` with
\* interval d, and the log of that outcome, tagged with the card's fen.
GradedAs(i, grade, d) ==
    /\ deck'.logs = Append(deck.logs, [rating |-> grade,
                                       fen |-> deck.positions[i + 1].fen])
    /\ Len(deck'.positions) = Len(deck.positions)
    /\ deck'.positions[i + 1].card =
           [due |-> now + d, reps |-> deck.positions[i + 1].card.reps + 1]
    /\ deck'.positions[i + 1].fen = deck.positions[i + 1].fen
    /\ deck'.positions[i + 1].answer = deck.positions[i + 1].answer
    /\ \A j \in 1..Len(deck.positions) :
           j # i + 1 => deck'.positions[j] = deck.positions[j]

\* C1 - Atomic grading: a call updateCardPerformance(setDeck, i,
\* positions[i].card, g) with i in range and g in 1..4, on a deck with or
\* without earlier log entries and on a card practised before or not, is one
\* step that appends exactly one log entry (fen of card i, rating g) to the
\* old logs, gives card i the engine's outcome for g and leaves every other
\* card alone; a grading or skipping step never changes positions without
\* logs or logs without positions.
AtomicGrading ==
    [][ /\ (lastOp' = "grade" /\ ~threw') =>
               \A i \in 0..(Len(deck.positions) - 1), grade \in 1..4 :
                   \A delay \in DelayChoicesFor(grade) :
                       Grade(i, grade, delay) => GradedAs(i, grade, delay[grade])
        /\ lastOp' \in {"grade", "skip"} =>
               \/ deck' = deck
               \/ /\ deck'.positions # deck.positions
                  /\ Len(deck'.logs) = Len(deck.logs) + 1
                  /\ SubSeq(deck'.logs, 1, Len(deck.logs)) = deck.logs ]_vars

\* The second card was graded twice, with different grades, while the first
\* card is still unseen: the second call found a log entry and a card with a
\* repetition, and both entries are there, in the order of the calls.
AtomicGradingWitness ==
    /\ lastOp = "grade" /\ ~threw
    /\ Len(deck.positions) = 2
    /\ Len(deck.logs) = 2
    /\ deck.logs[1].fen = deck.positions[2].fen
    /\ deck.logs[2].fen = deck.positions[2].fen
    /\ deck.logs[1].rating = 1
    /\ deck.logs[2].rating = 4
    /\ deck.positions[2].card.reps = 2
    /\ deck.positions[1].card.reps = 0

\* C2 - Auto-advance fires once per grading event: the auto-advance effect
\* calls newPractice at most once for one last log entry, whatever is rendered
\* afterwards while that entry stays the last one.
AdvanceOncePerEntry == advCalls <= 1

\* C3 - Skip-advance: a Skip that graded the displayed card leaves the board
\* on the card getCardForReview returns for the deck as it is after the grade.
SkipSurfacesNextOfUpdatedDeck ==
    [][ (lastOp' = "skip" /\ deck' # deck
         /\ getCardForReview(deck'.positions, DefaultOptions, now, 0) # <<>>)
        => position' = findFen(getCardForReview(deck'.positions, DefaultOptions, now, 0)[1].fen,
                               root) ]_vars

IdempotentSeeding ==
    [][ lastOp' = "effects" =>
            /\ Len(deck.positions) > 0 => deck' = deck
            /\ SeedEffect(SeedEffect(deck)) = SeedEffect(deck) ]_vars

Fens(positions) == [k \in 1..Len(positions) |-> positions[k].fen]

Answers(positions) == [k \in 1..Len(positions) |-> positions[k].answer]

\* The effects ran on a deck whose cards are no longer what the document, as
\* edited since, builds.
IdempotentSeedingWitness ==
    /\ lastOp = "effects"
    /\ Len(deck.positions) > 0
    /\ LET built == buildFromTree(root, headers.orientation, headers.start, now)
       IN  /\ Len(built) > 0
           /\ \/ Fens(built) # Fens(deck.positions)
              \/ Answers(built) # Answers(deck.positions)

\* Indexes (1-based) of the cards with due <= t.
DueSet(positions, t) == {k \in 1..Len(positions) : positions[k].card.due <= t}

Greatest(S) == CHOOSE k \in S : \A j \in S : k >= j

\* C6 - Deterministic selectNext: getCardForReview returns the card with the
\* smallest list index among those with due <= now, whatever their reps and
\* whichever due is earliest, returns none when no card has due <= now (the
\* empty list included), whatever Math.random gives, and selecting leaves the
\* deck as it was.
FirstDueInListOrder ==
    [][ /\ \A r \in RandomIndices(deck.positions) :
               IF DueSet(deck.positions, now) = {}
               THEN getCardForReview(deck.positions, DefaultOptions, now, r) = <<>>
               ELSE getCardForReview(deck.positions, DefaultOptions, now, r) =
                        << deck.positions[Least(DueSet(deck.positions, now))] >>
        /\ lastOp' = "next" => deck' = deck ]_vars

\* Two cards are due, the first of them later than the second and already
\* practised: Next went to the first one.
FirstDueInListOrderWitness ==
    /\ lastOp = "next"
    /\ Len(deck.positions) = 2
    /\ DueSet(deck.positions, now) = {1, 2}
    /\ deck.positions[1].card.due > deck.positions[2].card.due
    /\ deck.positions[1].card.reps > 0
    /\ position = findFen(deck.positions[1].fen, root)

Dues(positions) == {positions[k].card.due : k \in 1..Len(positions)}

\* The deck after card i, the only card with due <= now, was graded 4.
LastDueGraded(i, delay) ==
    /\ DueSet(deck.positions, now) = {i + 1}
    /\ Grade(i, 4, delay)

\* C7 (as stated) - Grading the last due card with 4 empties the due set:
\* getCardForReview returns none at every later time up to and including the
\* earliest due date of the resulting deck, and a card only once the clock
\* has passed that date.
LastDueGradedNoneUntilPastDue ==
    [][ (lastOp' = "grade" /\ ~threw') =>
        \A i \in 0..(Len(deck.positions) - 1), delay \in DelayChoicesFor(4) :
            LastDueGraded(i, delay)
            => LET earliest == Least(Dues(deck'.positions))
               IN  /\ earliest > now
                   /\ \A t \in now..(Greatest(Dues(deck'.positions)) + 1) :
                          IF t <= earliest
                          THEN getCardForReview(deck'.positions, DefaultOptions, t, 0) = <<>>
                          ELSE getCardForReview(deck'.positions, DefaultOptions, t, 0) # <<>> ]_vars

\* C7 - Grading the last due card with 4 empties the due set: when card i is
\* the only card with due <= now and is graded 4, every due date of the
\* resulting deck lies after now, and getCardForReview returns none at every
\* time before the earliest of them and a card from the time the clock
\* reaches it, that time included.
LastDueGradedEmptiesDueSet ==
    [][ (lastOp' = "grade" /\ ~threw') =>
        \A i \in 0..(Len(deck.positions) - 1), delay \in DelayChoicesFor(4) :
            LastDueGraded(i, delay)
            => LET earliest == Least(Dues(deck'.positions))
               IN  /\ earliest > now
                   /\ \A t \in now..(Greatest(Dues(deck'.positions)) + 1) :
                          IF t < earliest
                          THEN getCardForReview(deck'.positions, DefaultOptions, t, 0) = <<>>
                          ELSE getCardForReview(deck'.positions, DefaultOptions, t, 0) # <<>> ]_vars

\* A deck of two cards: the first was graded 3, the second, then the only
\* card due, was graded 4; nothing was due for a while, and the clock has now
\* reached the earlier of the two due dates, the first card's, which is
\* selected again at that very reading.
LastDueGradedWitness ==
    /\ lastOp = "clock"
    /\ Len(deck.positions) = 2
    /\ Len(deck.logs) = 2
    /\ deck.logs[1] = [rating |-> 3, fen |-> deck.positions[1].fen]
    /\ deck.logs[2] = [rating |-> 4, fen |-> deck.positions[2].fen]
    /\ deck.positions[1].card.due = now
    /\ deck.positions[2].card.due > now
    /\ getCardForReview(deck.positions, DefaultOptions, now - 1, 0) = <<>>
    /\ getCardForReview(deck.positions, DefaultOptions, now, 0) = << deck.positions[1] >>

\* C8 - Reset: a confirmed reset is one step to logs = [] and positions = the
\* build of the current tree, side and mastered prefix, every card with
\* reps = 0, also when that build is empty; opening the confirmation and
\* cancelling it leave the deck as it was.
ResetRebuilds ==
    [][ /\ lastOp' = "resetConfirm" =>
               /\ deck'.logs = <<>>
               /\ deck'.positions =
                      buildFromTree(root, headers.orientation, headers.start, now)
               /\ \A k \in 1..Len(deck'.positions) :
                      deck'.positions[k].card.reps = 0
        /\ lastOp' \in {"resetOpen", "resetCancel"} => deck' = deck ]_vars

\* A reset confirmed after the clock moved: the cards are those the document
\* builds now, each created at the time of the reset.
ResetRebuildsWitness ==
    /\ lastOp = "resetConfirm"
    /\ now > 0
    /\ Len(deck.positions) = 2
    /\ \A k \in 1..Len(deck.positions) : deck.positions[k].card.due = now

\* C9 - Fail-fast grading: updateCardPerformance with an index outside
\* 0..len-1 or a grade outside 1..4 throws and leaves positions and logs as
\* they were.
FailFastGrading ==
    [][ lastOp' = "grade" =>
        \A i \in -1..Len(deck.positions), grade \in 0..5 :
            ((~InRange(deck.positions, i) \/ grade \notin 1..4)
             /\ \E delay \in DelayChoicesFor(grade) : Grade(i, grade, delay))
            => (threw' /\ deck' = deck) ]_vars

\* A call on a deck with cards threw.
FailFastGradingWitness ==
    /\ lastOp = "grade"
    /\ threw
    /\ Len(deck.positions) > 0

UniqueFens(positions) ==
    \A j, k \in 1..Len(positions) : j # k => positions[j].fen # positions[k].fen

\* C10 - Deck invariant: no two cards of positions have the same fen, and a
\* grading or skipping step changes no card's fen or answer, nor the length
\* or the order of positions.
DeckInvariant ==
    [][ /\ UniqueFens(deck.positions)
        /\ UniqueFens(deck'.positions)
        /\ lastOp' \in {"grade", "skip"} =>
               /\ Fens(deck'.positions) = Fens(deck.positions)
               /\ Answers(deck'.positions) = Answers(deck.positions) ]_vars

\* A deck built from the tree with the transposition, after a grading step.
DeckInvariantWitness ==
    /\ lastOp = "grade" /\ ~threw
    /\ root = TreeA /\ headers.orientation = "white"
    /\ Len(deck.positions) = 1
    /\ deck.positions[1].fen = "open"
    /\ Len(deck.logs) = 1

\* The build of the current inputs at the current clock reading.
Built == buildFromTree(root, headers.orientation, headers.start, now)

\* C11 - Build uniqueness: whatever the tree (transpositions included), the
\* side and the mastered prefix, buildFromTree returns no two cards with the
\* same fen.
BuildUniqueness ==
    /\ UniqueFens(Built)
    /\ lastOp = "build" => UniqueFens(deck.positions)

\* The tree reaches "open" by two paths with White to move; the build for
\* White holds it once.
BuildUniquenessWitness ==
    /\ lastOp = "build"
    /\ root = TreeA /\ headers.orientation = "white" /\ headers.start = <<>>
    /\ Fens(deck.positions) = << "open" >>

Items == treeIterator(root)

\* The cards the loop of buildFromTree holds before it turns to item j.
CardsBefore(j) ==
    BuildLoop(SubSeq(Items, 1, j - 1), 1, <<>>, headers.orientation,
              headers.start, now)

\* The loop pushes a card when it handles item j.
CreatedAt(j) == Len(CardsBefore(j + 1)) > Len(CardsBefore(j))

\* C12 - Prefix exclusion: buildFromTree creates no card from a node whose
\* path is a prefix of, or equal to, the mastered prefix, whatever else holds
\* of the node.
PrefixExclusion ==
    \A j \in 1..Len(Items) :
        isPrefix(Items[j].position, headers.start) => ~CreatedAt(j)

\* Black's node after 1.e4 has children, a named first reply, a new fen and
\* odd halfMoves, and its path [0] is a prefix of the mastered path [0, 0]:
\* the build was run and holds no card for it.
PrefixExclusionWitness ==
    /\ lastOp = "build"
    /\ root = TreeC /\ headers.orientation = "black" /\ headers.start = <<0, 0>>
    /\ ~HasFen(deck.positions, "e4")
    /\ HasFen(deck.positions, "knight")

\* C13 - Parity filter: with side white buildFromTree creates cards only from
\* nodes with even halfMoves, with side black only from nodes with odd
\* halfMoves.
ParityFilter ==
    \A j \in 1..Len(Items) :
        CreatedAt(j) =>
            Items[j].node.halfMoves % 2 =
                (IF headers.orientation = "white" THEN 0 ELSE 1)

\* The build for Black of the tree with nodes of both parities: the cards are
\* the two nodes with odd halfMoves that have a named first reply.
ParityFilterWitness ==
    /\ lastOp = "build"
    /\ root = TreeC /\ headers.orientation = "black" /\ headers.start = <<>>
    /\ Fens(deck.positions) = << "e4", "knight" >>

\* Item j qualifies on its own: a child, a path that is no prefix of the
\* mastered prefix, a named first child, the parity of the side.
Eligible(j) ==
    /\ Len(Items[j].node.children) > 0
    /\ ~isPrefix(Items[j].position, headers.start)
    /\ Items[j].node.children[1].san # ""
    /\ Items[j].node.halfMoves % 2 =
           (IF headers.orientation = "white" THEN 0 ELSE 1)

\* Item j qualifies and no earlier accepted item has its fen.
Accepted(j) ==
    /\ Eligible(j)
    /\ \A i \in 1..(j - 1) :
           Eligible(i) => Items[i].node.fen # Items[j].node.fen

\* One fresh card per accepted item among the first j, in traversal order.
RECURSIVE ExpectedUpTo(_)
ExpectedUpTo(j) ==
    IF j = 0 THEN <<>>
    ELSE IF Accepted(j)
         THEN Append(ExpectedUpTo(j - 1),
                     [fen    |-> Items[j].node.fen,
                      answer |-> Items[j].node.children[1].san,
                      card   |-> [due |-> now, reps |-> 0]])
         ELSE ExpectedUpTo(j - 1)

\* C14 - Build completeness and order: buildFromTree returns, in traversal
\* order, exactly one card (fen of the node, move of its first child, reps 0,
\* due at creation) for every node that qualifies and whose fen is on no
\* earlier card, among them nodes deeper than the mastered prefix, and nothing
\* else; builds of the same inputs agree on fens and answers.
BuildCompleteness ==
    /\ Built = ExpectedUpTo(Len(Items))
    /\ lastOp = "build" => deck.positions = Built
    /\ \A t \in 0..MaxTime :
           LET again == buildFromTree(root, headers.orientation,
                                      headers.start, t)
           IN  Fens(again) = Fens(Built) /\ Answers(again) = Answers(Built)

\* The mastered prefix is [0]; the node at [0, 0, 0] lies deeper and is the
\* one card of the build for Black, created when the clock had moved on.
BuildCompletenessWitness ==
    /\ lastOp = "build"
    /\ now > 0
    /\ root = TreeC /\ headers.orientation = "black" /\ headers.start = <<0>>
    /\ deck.positions = << [fen |-> "knight", answer |-> "Nc6",
                            card |-> [due |-> now, reps |-> 0]] >>

\* Indexes of the cards of the deck that were practised at least once.
Practised == {k \in 1..Len(deck.positions) : deck.positions[k].card.reps > 0}

\* C15 - Stats partition: getStats counts every card in exactly one of unseen
\* (reps = 0), due (reps > 0, due <= now) and practiced (reps > 0, due > now),
\* so the three counts add up to total, the number of cards; the empty list
\* gives zeros.
StatsPartition ==
    LET st == getStats(deck.positions, now)
    IN  /\ st.unseen = Len(deck.positions) - Cardinality(Practised)
        /\ st.due = Cardinality({k \in Practised :
                                    deck.positions[k].card.due <= now})
        /\ st.practiced = Cardinality({k \in Practised :
                                          deck.positions[k].card.due > now})
        /\ st.unseen + st.due + st.practiced = st.total
        /\ st.total = Len(deck.positions)

\* A deck of three cards after a grading step, one card in each class.
StatsPartitionWitness ==
    /\ lastOp = "grade" /\ ~threw
    /\ Len(deck.positions) = 3
    /\ getStats(deck.positions, now).unseen = 1
    /\ getStats(deck.positions, now).due = 1
    /\ getStats(deck.positions, now).practiced = 1

\* C16 - Stats nextDue: getStats returns as nextDue the least due date of the
\* cards with reps > 0, past or future, and none when there is no such card;
\* cards with reps = 0 do not count.
StatsNextDue ==
    getStats(deck.positions, now).nextDue =
        IF Practised = {} THEN NullDate
        ELSE Least({deck.positions[k].card.due : k \in Practised})

\* Two practised cards, the later one first in the list and the earlier one
\* already past, after an unseen card that is due before both.
StatsNextDueWitness ==
    /\ Len(deck.positions) = 3
    /\ now = 2
    /\ deck.positions[1].card = [due |-> 0, reps |-> 0]
    /\ deck.positions[2].card = [due |-> 2, reps |-> 1]
    /\ deck.positions[3].card = [due |-> 1, reps |-> 1]
    /\ getStats(deck.positions, now).nextDue = 1

\* The repetitions recorded on the first n cards.
RECURSIVE SumReps(_, _)
SumReps(positions, n) ==
    IF n = 0 THEN 0 ELSE positions[n].card.reps + SumReps(positions, n - 1)

\* C17 - Playback is decoupled from scheduling state: starting an animation,
\* an interval tick, the final tick and cancelling the interval (Next, the
\* hotkey, See answer, unmount; the effects of a render on a deck with cards)
\* leave positions and logs as they were; so do mounting, a change of the
\* speed and a render for the panel's own state; a change of currentTab to
\* another game makes the panel read the other deck and writes neither;
\* Skip changes both positions and logs or neither; and in every state each
\* repetition on a card has its log entry, in the deck the panel reads and
\* in the one it read before.
PlaybackLeavesDeck ==
    [][ /\ lastOp' \in {"interval", "next", "hotkey", "seeAnswer", "unmount",
                        "mount", "render", "setSpeed"} =>
               (deck' = deck /\ otherDeck' = otherDeck)
        /\ lastOp' = "switchDeck" => (deck' = otherDeck /\ otherDeck' = deck)
        /\ (lastOp' = "effects" /\ Len(deck.positions) > 0) => deck' = deck
        /\ lastOp' = "skip" =>
               \/ deck' = deck
               \/ /\ deck'.positions # deck.positions
                  /\ Len(deck'.logs) = Len(deck.logs) + 1
        /\ SumReps(deck'.positions, Len(deck'.positions)) = Len(deck'.logs)
        /\ SumReps(otherDeck'.positions, Len(otherDeck'.positions)) =
               Len(otherDeck'.logs)
      ]_vars

\* An interval tick in the middle of a playback, one move made and the target
\* two moves deep, on a deck with a graded card, the deck of the other game
\* having been read and seeded before.
PlaybackLeavesDeckWitness ==
    /\ lastOp = "interval"
    /\ animation.running
    /\ animation.currentStep = 1
    /\ Len(animation.targetPosition) = 2
    /\ position = << 0 >>
    /\ Len(deck.logs) = 1
    /\ Len(otherDeck.positions) > 0

\* C18 - Seed-if-empty eventually seeds: an empty positions list together
\* with a build of at least one card for the current tree, side and mastered
\* prefix leads to positions being exactly that build; a flush of the effects
\* on empty positions writes that build, and writes nothing when the build
\* is empty.
SeedEventuallySeeds ==
    /\ [][ (lastOp' = "effects" /\ Len(deck.positions) = 0) =>
               IF Len(Built) > 0
               THEN deck'.positions = Built
               ELSE deck' = deck ]_vars
    /\ (Len(deck.positions) = 0 /\ Len(Built) > 0)
           ~> (Len(deck.positions) > 0 /\ deck.positions = Built)

\* The effects seeded the deck after the clock had moved: the cards are the
\* build of the document as it is, created at the time of the flush.
SeedEventuallySeedsWitness ==
    /\ lastOp = "effects"
    /\ now > 0
    /\ Len(deck.positions) > 0
    /\ deck.positions = Built
    /\ deck.logs = <<>>

\* The panel has rendered at the current clock reading.
RenderedNow == stats = getStats(deck.positions, now)

\* C19 - Review actions are disabled exactly when nothing is selectable: in
\* every deck reached from the empty deck by seeding, grading, skipping and
\* resetting, and at every clock reading from the operation that produced it
\* on, getStats gives due = 0 and unseen = 0 if and only if getCardForReview
\* returns none for the same positions at the same reading, so Next and Skip
\* of a render at that reading are disabled exactly then; and every card
\* with reps = 0 has due <= now.
DisabledIffNoneSelectable ==
    LET st == getStats(deck.positions, now)
        none == getCardForReview(deck.positions, DefaultOptions, now, 0) = <<>>
    IN  /\ (st.due = 0 /\ st.unseen = 0) <=> none
        /\ RenderedNow => (Disabled <=> none)
        /\ \A k \in 1..Len(deck.positions) :
               deck.positions[k].card.reps = 0 =>
                   deck.positions[k].card.due <= now

\* Both cards of a deck have been graded and neither is due yet: the panel
\* rendered at this clock reading, the buttons are disabled and nothing is
\* selectable, on a deck that is not empty.
DisabledIffNoneSelectableWitness ==
    /\ lastOp = "grade" /\ ~threw
    /\ Len(deck.positions) = 2
    /\ \A k \in 1..Len(deck.positions) : deck.positions[k].card.reps = 1
    /\ RenderedNow
    /\ Disabled
    /\ getCardForReview(deck.positions, DefaultOptions, now, 0) = <<>>

\* C20 - An empty deck has no history: from the empty deck, positions = []
\* implies logs = []; a grading or skipping step logs the fen of a card that
\* is in positions at that step; and the seed effect writes only to a deck
\* whose logs are empty.
EmptyDeckHasNoHistory ==
    [][ /\ Len(deck'.positions) = 0 => Len(deck'.logs) = 0
        /\ (lastOp' \in {"grade", "skip"} /\ deck' # deck) =>
               HasFen(deck.positions, deck'.logs[Len(deck'.logs)].fen)
        /\ (lastOp' = "effects" /\ deck' # deck) => deck.logs = <<>> ]_vars

\* A reset confirmed, after the clock moved, on a document that builds no
\* card for the side: positions and logs are both empty.
EmptyDeckHasNoHistoryWitness ==
    /\ lastOp = "resetConfirm"
    /\ now > 0
    /\ Len(Built) = 0
    /\ deck = EmptyDeck

\* The log entries among the first n that carry fen f.
RECURSIVE CountFen(_, _, _)
CountFen(logs, n, f) ==
    IF n = 0 THEN 0
    ELSE (IF logs[n].fen = f THEN 1 ELSE 0) + CountFen(logs, n - 1, f)

\* C21 - Logs and repetition counts agree: in every state reached from the
\* empty deck by seeding, grading, skipping and resetting, each card's reps
\* is the number of log entries that carry the card's fen, also when a
\* handler issues several grading calls from the same render snapshot.
LogsAgreeWithReps ==
    \A k \in 1..Len(deck.positions) :
        deck.positions[k].card.reps =
            CountFen(deck.logs, Len(deck.logs), deck.positions[k].fen)

\* Item j is a branch point of the side: a named first child and the parity
\* of the side, the mastered prefix aside.
BranchPoint(j) ==
    /\ Len(Items[j].node.children) > 0
    /\ Items[j].node.children[1].san # ""
    /\ Items[j].node.halfMoves % 2 =
           (IF headers.orientation = "white" THEN 0 ELSE 1)

\* The starting position is the only branch point of the side.
OnlyRootBranches ==
    /\ BranchPoint(1)
    /\ \A j \in 2..Len(Items) : ~BranchPoint(j)

\* C22 - The root position is never a card: the empty path is a prefix of
\* every mastered prefix, the default [] included, so buildFromTree pushes no
\* card when it handles the root, and no seed or reset writes a card with the
\* root's fen; on a tree whose only branch point of the side is the starting
\* position the build is empty and the seed effect leaves the deck unseeded.
RootNeverACard ==
    /\ [](/\ isPrefix(<<>>, headers.start)
          /\ ~CreatedAt(1)
          /\ lastOp \in {"effects", "resetConfirm"} =>
                 ~HasFen(deck.positions, root.fen)
          /\ OnlyRootBranches =>
                 /\ Len(Built) = 0
                 /\ lastOp = "resetConfirm" => Len(deck.positions) = 0)
    /\ [][ (lastOp' = "effects" /\ deck'.positions # deck.positions) =>
               ~OnlyRootBranches ]_vars

\* After the clock moved, the seed effect ran for White with the default
\* prefix on the tree whose root is its only node with White to move: the
\* root has a named reply and the deck is still empty.
RootNeverACardWitness ==
    /\ lastOp = "effects"
    /\ root = TreeB /\ headers = [orientation |-> "white", start |-> <<>>]
    /\ OnlyRootBranches
    /\ now > 0
    /\ ~pending.seed
    /\ deck = EmptyDeck

====
